---- MODULE Spec2Model ----
(***************************************************************************)
(* CleanEmon-Backend, CleanEmonBackend/API/API.py: the single-day fetch    *)
(* and filter path (get_data), the range assembler (get_range_data), the   *)
(* daily consumption accessor (get_date_consumption), the per-area         *)
(* normalisation (get_mean_consumption) and the metadata accessors         *)
(* (get_meta, has_meta, set_meta_field).                                   *)
(*                                                                         *)
(* Python strings that the code parses (dates, metadata values handed to   *)
(* float()) are sequences of one-character strings, so that parsing and    *)
(* formatting are computed rather than assumed.  Numbers are exact         *)
(* rationals [n, d].  Python values are records tagged by the field t.     *)
(***************************************************************************)
EXTENDS Integers, Sequences, FiniteSets, TLC

(* ------------------------------ bounds --------------------------------- *)
\* longest range (to_dt - from_dt, in days) a modelled request iterates
MaxSpan == 3
\* longest sequence of power readings the consumption view is computed over
MaxReadings == 4

(* --------------------------- small helpers ----------------------------- *)
Range(s) == {s[i] : i \in 1..Len(s)}

Abs(x) == IF x < 0 THEN -x ELSE x

RECURSIVE GCD(_, _)
GCD(a, b) == IF b = 0 THEN a ELSE GCD(b, a % b)

\* exact rational n/d (d # 0), normalised: d > 0, gcd(n, d) = 1
Rat(n, d) ==
    LET g == GCD(Abs(n), Abs(d))
        s == IF d < 0 THEN -1 ELSE 1
    IN [n |-> (s * n) \div g, d |-> (s * d) \div g]

(* --------------------------- Python values ----------------------------- *)
None == [t |-> "none"]
PyNum(n, d) == [t |-> "num", q |-> Rat(n, d)]
PyBool(b) == [t |-> "bool", b |-> b]
PyStr(s) == [t |-> "str", s |-> s]
PyDict(items) == [t |-> "dict", items |-> items]
Raise(exc) == [t |-> "raise", exc |-> exc]

IsNum(v) == v.t = "num"

DigitChars == <<"0", "1", "2", "3", "4", "5", "6", "7", "8", "9">>
IsDigit(c) == c \in Range(DigitChars)
DigitVal(c) == (CHOOSE i \in 1..10 : DigitChars[i] = c) - 1

RECURSIVE DigitsVal(_)
DigitsVal(s) ==
    IF s = <<>> THEN 0
    ELSE 10 * DigitsVal(SubSeq(s, 1, Len(s) - 1)) + DigitVal(s[Len(s)])

AllDigits(s) == \A i \in 1..Len(s) : IsDigit(s[i])

RECURSIVE Pow10(_)
Pow10(k) == IF k = 0 THEN 1 ELSE 10 * Pow10(k - 1)

(* ------------------------------ dates ---------------------------------- *)
\* datetime's calendar: proleptic Gregorian
IsLeap(y) == (y % 4 = 0) /\ ((y % 100 # 0) \/ (y % 400 = 0))

DaysInMonth(y, m) ==
    IF m = 2 THEN (IF IsLeap(y) THEN 29 ELSE 28)
    ELSE IF m \in {4, 6, 9, 11} THEN 30 ELSE 31

\* datetime's _days_before_year: days in the years before year y
DaysBeforeYear(y) ==
    LET p == y - 1 IN p * 365 + (p \div 4) - (p \div 100) + (p \div 400)

RECURSIVE DaysBeforeMonth(_, _)
DaysBeforeMonth(y, m) == IF m <= 1 THEN 0 ELSE DaysBeforeMonth(y, m - 1) + DaysInMonth(y, m - 1)

\* datetime(y, m, d) as its proleptic Gregorian ordinal (the time of day is
\* always 00:00, so the ordinal is the whole value)
ToOrdinal(y, m, d) == DaysBeforeYear(y) + DaysBeforeMonth(y, m) + d

RECURSIVE MonthOf(_, _, _)
MonthOf(n, y, m) == IF n <= DaysInMonth(y, m) THEN m ELSE MonthOf(n - DaysInMonth(y, m), y, m + 1)

\* datetime's _ord2ymd: the year, month and day of an ordinal
FromOrdinal(ord) ==
    LET n0 == ord - 1
        n400 == n0 \div 146097
        r400 == n0 % 146097
        n100 == r400 \div 36524
        r100 == r400 % 36524
        n4 == r100 \div 1461
        r4 == r100 % 1461
        n1 == r4 \div 365
        r1 == r4 % 365
        year == n400 * 400 + 1 + n100 * 100 + n4 * 4 + n1
    IN IF n1 = 4 \/ n100 = 4
       THEN [y |-> year - 1, m |-> 12, d |-> 31]
       ELSE LET m == MonthOf(r1 + 1, year, 1)
            IN [y |-> year, m |-> m, d |-> r1 + 1 - DaysBeforeMonth(year, m)]

\* positions of "-" in s
Dashes(s) == {i \in 1..Len(s) : s[i] = "-"}

\* the three "-"-separated parts of s, when there are exactly two "-"
DateParts(s) ==
    LET i == CHOOSE k \in Dashes(s) : \A j \in Dashes(s) : k <= j
        j == CHOOSE k \in Dashes(s) : \A l \in Dashes(s) : l <= k
    IN <<SubSeq(s, 1, i - 1), SubSeq(s, i + 1, j - 1), SubSeq(s, j + 1, Len(s))>>

\* datetime.strptime(s, "%Y-%m-%d"): %Y is four digits, %m and %d are one or
\* two digits in 1..12 and 1..31, the whole string must be consumed, and the
\* datetime constructor rejects a day the month does not have
strptime(s) ==
    IF Cardinality(Dashes(s)) # 2 THEN Raise("ValueError")
    ELSE LET p == DateParts(s) IN
         IF ~(Len(p[1]) = 4 /\ Len(p[2]) \in {1, 2} /\ Len(p[3]) \in {1, 2}
              /\ AllDigits(p[1]) /\ AllDigits(p[2]) /\ AllDigits(p[3]))
         THEN Raise("ValueError")
         ELSE LET y == DigitsVal(p[1])
                  m == DigitsVal(p[2])
                  d == DigitsVal(p[3])
              IN IF y >= 1 /\ m \in 1..12 /\ d \in 1..31 /\ d <= DaysInMonth(y, m)
                 THEN [t |-> "datetime", ord |-> ToOrdinal(y, m, d)]
                 ELSE Raise("ValueError")

\* n >= 0 as exactly w digits, zero padded
RECURSIVE Pad(_, _)
Pad(n, w) == IF w = 0 THEN <<>> ELSE Append(Pad(n \div 10, w - 1), DigitChars[(n % 10) + 1])

\* datetime.strftime("%Y-%m-%d")
strftime(ord) ==
    LET c == FromOrdinal(ord)
    IN Pad(c.y, 4) \o <<"-">> \o Pad(c.m, 2) \o <<"-">> \o Pad(c.d, 2)

(* --------------------------- float and / ------------------------------- *)
RECURSIVE LStrip(_)
LStrip(s) == IF s # <<>> /\ s[1] = " " THEN LStrip(Tail(s)) ELSE s

RECURSIVE RStrip(_)
RStrip(s) == IF s # <<>> /\ s[Len(s)] = " " THEN RStrip(SubSeq(s, 1, Len(s) - 1)) ELSE s

\* float(str): surrounding blanks are dropped, then an optional sign, digits,
\* at most one ".", and at least one digit.  (Exponents, "inf", "nan" and "_"
\* are outside the alphabet of the modelled strings.)
ParseFloat(str) ==
    LET s0 == RStrip(LStrip(str))
        neg == s0 # <<>> /\ s0[1] = "-"
        s == IF s0 # <<>> /\ s0[1] \in {"-", "+"} THEN Tail(s0) ELSE s0
        dots == {i \in 1..Len(s) : s[i] = "."}
        ip == IF dots = {} THEN s ELSE SubSeq(s, 1, (CHOOSE i \in dots : TRUE) - 1)
        fp == IF dots = {} THEN <<>> ELSE SubSeq(s, (CHOOSE i \in dots : TRUE) + 1, Len(s))
    IN IF Cardinality(dots) <= 1 /\ AllDigits(ip) /\ AllDigits(fp) /\ Len(ip) + Len(fp) >= 1
       THEN PyNum((IF neg THEN -1 ELSE 1) * (DigitsVal(ip) * Pow10(Len(fp)) + DigitsVal(fp)),
                  Pow10(Len(fp)))
       ELSE Raise("ValueError")

\* the builtin float(v)
float(v) ==
    CASE v.t = "num" -> v
      [] v.t = "bool" -> PyNum(IF v.b THEN 1 ELSE 0, 1)
      [] v.t = "str" -> ParseFloat(v.s)
      [] OTHER -> Raise("TypeError")

\* a / b, b a float
truediv(a, b) ==
    IF ~IsNum(a) THEN Raise("TypeError")
    ELSE IF b.q.n = 0 THEN Raise("ZeroDivisionError")
    ELSE PyNum(a.q.n * b.q.d, a.q.d * b.q.n)

\* the int -1
MinusOne == PyNum(-1, 1)

(* ------------------------ the Store (collaborator) --------------------- *)
\* the "unavailable" indicator of a ConsumptionValue: not a number
Unavailable == [t |-> "unavailable"]

\* a reading is valid when it is numeric and not null
ValidReading(v) == IsNum(v)

RECURSIVE FirstValid(_)
FirstValid(rs) ==
    IF rs = <<>> THEN Unavailable
    ELSE IF ValidReading(Head(rs)) THEN Head(rs) ELSE FirstValid(Tail(rs))

RECURSIVE LastValid(_)
LastValid(rs) ==
    IF rs = <<>> THEN Unavailable
    ELSE IF ValidReading(rs[Len(rs)]) THEN rs[Len(rs)]
    ELSE LastValid(SubSeq(rs, 1, Len(rs) - 1))

\* the daily consumption view over one day's power readings: last valid
\* reading minus first valid reading, or the unavailable indicator
get_view_daily_consumption(rs) ==
    LET a == FirstValid(rs)
        b == LastValid(rs)
    IN IF a = Unavailable \/ b = Unavailable THEN Unavailable
       ELSE PyNum(b.q.n * a.q.d - a.q.n * b.q.d, a.q.d * b.q.d)

\* the values a power reading takes in the model: null, a non-numeric
\* marker, and numbers
ReadingValues == {None, PyStr(<<"x">>), PyNum(10, 1), PyNum(25, 1)}

RECURSIVE SeqsUpTo(_, _)
SeqsUpTo(S, n) ==
    IF n = 0 THEN {<<>>}
    ELSE LET P == SeqsUpTo(S, n - 1)
         IN P \cup {Append(p, x) : p \in {q \in P : Len(q) = n - 1}, x \in S}

DayReadings == SeqsUpTo(ReadingValues, MaxReadings)

\* SensorRecords: sensor name -> value, always with a timestamp
Rec1 == ("timestamp" :> "00:00") @@ ("power" :> "10") @@ ("temp" :> "21")
Rec2 == ("timestamp" :> "01:00") @@ ("power" :> "null")
Rec3 == ("timestamp" :> "02:00") @@ ("temp" :> "22")

\* what fetch_data(date).energy_data can hold for a day
RawDays == {<<>>, <<Rec1, Rec2>>, <<Rec3, Rec1, Rec3>>}

(* ------------------------------ metadata ------------------------------- *)
SizeField == "Household m2"
Fields == {SizeField, "owner"}
\* get_meta's field=None default; None and "" take the same `not field` branch
NoField == ""

NullStr == PyStr(<<"n", "u", "l", "l">>)

MetaValues ==
    {PyNum(0, 1), PyNum(50, 1), PyBool(FALSE), NullStr,
     PyStr(<<"0", ".", "0">>), PyStr(<<" ", "8">>), PyStr(<<"a", "b", "c">>)}

EmptyMeta == [f \in {} |-> None]

\* get_meta with adapter.fetch_meta(db) = m
get_meta(field, m) ==
    IF field = NoField THEN PyDict(m)
    ELSE IF field \in DOMAIN m THEN m[field]
    ELSE PyDict(EmptyMeta)

\* a slip: the value tested for truth
has_meta_truthy(field, m) ==
    LET all == get_meta(NoField, m).items
    IN IF field \notin DOMAIN all THEN FALSE
       ELSE all[field] # NullStr /\ all[field] \notin {PyNum(0, 1), PyBool(FALSE)}

has_meta(field, m) ==
    LET all == get_meta(NoField, m).items
    IN IF field \notin DOMAIN all THEN FALSE
       ELSE all[field] # NullStr

\* a slip: the simplify branches exchanged
get_date_consumption_swapped(rs, simplify) ==
    LET consumption == get_view_daily_consumption(rs)
    IN IF ~simplify THEN consumption
       ELSE [t |-> "dict", consumption |-> consumption, unit |-> "kwh"]

\* get_date_consumption over the day's readings rs
get_date_consumption(rs, simplify) ==
    LET consumption == get_view_daily_consumption(rs)
    IN IF simplify THEN consumption
       ELSE [t |-> "dict", consumption |-> consumption, unit |-> "kwh"]

\* the truth value of a float
Truthy(x) == x.q.n # 0

get_mean_consumption(rs, m) ==
    LET consumption == get_date_consumption(rs, TRUE)
    IN IF has_meta(SizeField, m)
       THEN LET size == float(get_meta(SizeField, m))
            IN IF size.t = "raise" THEN size
               ELSE IF Truthy(size) THEN truediv(consumption, size)
               ELSE MinusOne
       ELSE MinusOne

(* ---------------------------- get_data --------------------------------- *)
\* a slip: the membership test of line 39 left out
AppendTimestamp_always(s) ==
    IF s # <<>> THEN Append(s, "timestamp") ELSE s

\* the caller's list after get_data's `if sensors:` block
AppendTimestamp(s) ==
    IF s # <<>> /\ "timestamp" \notin Range(s) THEN Append(s, "timestamp") ELSE s

\* {sensor: value for sensor, value in record.items() if sensor in sensors}
FilterRecord(record, s) == [k \in (DOMAIN record) \cap Range(s) |-> record[k]]

\* a slip: the records filtered with the list as the caller passed it
FilterData_noTimestamp(raw, s) ==
    IF s # <<>>
    THEN [i \in 1..Len(raw) |-> FilterRecord(raw[i], s)]
    ELSE raw

\* get_data's data for raw_data = raw and the caller's list s
FilterData(raw, s) ==
    IF s # <<>>
    THEN [i \in 1..Len(raw) |-> FilterRecord(raw[i], AppendTimestamp(s))]
    ELSE raw

EnergyData(date, data) == [t |-> "EnergyData", date |-> date, energy_data |-> data]

\* get_last_value(db): the newest record the Store holds
get_last_value(raw) ==
    [t |-> "LastValue", energy_data |-> IF raw = <<>> THEN <<>> ELSE <<raw[Len(raw)]>>]

\* fetch_data either delivers one day's records or fails
FetchOutcomes == {[ok |-> TRUE, raw |-> r] : r \in RawDays} \cup {[ok |-> FALSE, raw |-> <<>>]}

(* ------------------------------ inputs --------------------------------- *)
Y23 == <<"2", "0", "2", "3">>
Y24 == <<"2", "0", "2", "4">>
Dt(y, m, d) == y \o <<"-">> \o m \o <<"-">> \o d

ValidDateInputs ==
    {Dt(Y23, <<"1", "2">>, <<"3", "0">>), Dt(Y23, <<"1", "2">>, <<"3", "1">>),
     Dt(Y24, <<"0", "1">>, <<"0", "1">>), Dt(Y24, <<"0", "1">>, <<"0", "2">>),
     Dt(Y24, <<"1">>, <<"3">>),
     Dt(Y24, <<"0", "2">>, <<"2", "8">>), Dt(Y24, <<"0", "2">>, <<"2", "9">>),
     Dt(Y24, <<"3">>, <<"0", "1">>),
     Dt(Y23, <<"0", "2">>, <<"2", "8">>), Dt(Y23, <<"0", "3">>, <<"0", "1">>)}

InvalidDateInputs ==
    {Dt(Y23, <<"0", "2">>, <<"2", "9">>), Dt(Y24, <<"1", "3">>, <<"0", "1">>),
     Dt(Y24, <<"0", "0">>, <<"1", "0">>), Dt(<<"2", "4">>, <<"0", "1">>, <<"0", "1">>),
     <<"2", "0", "2", "4", "/", "0", "1", "/", "0", "1">>,
     Dt(Y24, <<"0", "1">>, <<"0", "1", "x">>), <<>>}

DateInputs == ValidDateInputs \cup InvalidDateInputs

\* the dates get_data is called with directly
GetDataDates == {Dt(Y24, <<"0", "2">>, <<"2", "9">>), <<"x">>}

\* the caller's sensors lists (None and [] take the same branch)
SensorLists ==
    {<<>>, <<"power">>, <<"timestamp", "power">>, <<"temp", "power", "temp">>, <<"humidity">>}

(* ------------------------------- state --------------------------------- *)
VARIABLES
    pc,         \* "idle", "loop" (inside get_range_data's while), "returned", "raised"
    op,         \* the operation last called
    args,       \* its arguments
    sensors0,   \* the caller's sensors list as the caller built it
    sensors,    \* the same list object now
    now,        \* get_range_data's now, as an ordinal
    to_dt,      \* get_range_data's to_dt, as an ordinal
    range_data, \* get_range_data's data["range_data"]
    trace,      \* the Store calls of the operation in progress, in order
    result,     \* what the operation returned or raised
    meta        \* the Store's metadata document

vars == <<pc, op, args, sensors0, sensors, now, to_dt, range_data, trace, result, meta>>

NoResult == [t |-> "pending"]

Init ==
    /\ pc = "idle"
    /\ op = "none"
    /\ args = [none |-> TRUE]
    /\ sensors0 \in SensorLists
    /\ sensors = sensors0
    /\ now = 0
    /\ to_dt = 0
    /\ range_data = <<>>
    /\ trace = <<>>
    /\ result = NoResult
    /\ meta = EmptyMeta

Done(r) == IF r.t = "raise" THEN "raised" ELSE "returned"

(* ---------------------------- get_range_data --------------------------- *)
\* a slip: to_date parsed only when the loop has run out of days
Call_get_range_data_lazy(from_date, to_date, down_sampling) ==
    LET from_dt == strptime(from_date)
        to == strptime(to_date)
    IN /\ pc = "idle"
       /\ op' = "get_range_data"
       /\ args' = [from_date |-> from_date, to_date |-> to_date, down_sampling |-> down_sampling]
       /\ range_data' = <<>>
       /\ trace' = <<>>
       /\ IF from_dt.t = "raise"
          THEN /\ pc' = "raised"
               /\ result' = Raise("ValueError")
               /\ now' = 0
               /\ to_dt' = 0
          ELSE /\ to.t # "raise" => to.ord - from_dt.ord <= MaxSpan
               /\ pc' = "loop"
               /\ result' = NoResult
               /\ now' = from_dt.ord
               /\ to_dt' = IF to.t = "raise" THEN from_dt.ord ELSE to.ord
       /\ UNCHANGED <<sensors0, sensors, meta>>

\* lines 65-76: build the schema, parse both dates, now = from_dt
Call_get_range_data(from_date, to_date, down_sampling) ==
    LET from_dt == strptime(from_date)
        to == strptime(to_date)
    IN /\ pc = "idle"
       /\ op' = "get_range_data"
       /\ args' = [from_date |-> from_date, to_date |-> to_date, down_sampling |-> down_sampling]
       /\ range_data' = <<>>
       /\ trace' = <<>>
       /\ IF from_dt.t = "raise" \/ to.t = "raise"
          THEN /\ pc' = "raised"
               /\ result' = Raise("ValueError")
               /\ now' = 0
               /\ to_dt' = 0
          ELSE /\ to.ord - from_dt.ord <= MaxSpan
               /\ pc' = "loop"
               /\ result' = NoResult
               /\ now' = from_dt.ord
               /\ to_dt' = to.ord
       /\ UNCHANGED <<sensors0, sensors, meta>>

\* a slip: the end of the range left out
LoopCondStrict(n, t) == n < t

\* line 77
LoopCond(n, t) == n <= t

\* a slip: a day whose fetch fails is skipped
Iter_get_range_data_skip ==
    /\ pc = "loop"
    /\ now <= to_dt
    /\ \E out \in FetchOutcomes :
         LET now_str == strftime(now)
             call == [fn |-> "fetch_data", date |-> now_str,
                      down_sampling |-> args.down_sampling, ok |-> out.ok,
                      raw |-> out.raw,
                      sensors |-> IF out.ok THEN AppendTimestamp(sensors) ELSE sensors]
         IN /\ trace' = Append(trace, call)
            /\ now' = now + 1
            /\ IF out.ok
               THEN /\ sensors' = AppendTimestamp(sensors)
                    /\ range_data' = Append(range_data, EnergyData(now_str, FilterData(out.raw, sensors)))
               ELSE UNCHANGED <<sensors, range_data>>
            /\ UNCHANGED <<pc, result, to_dt>>
    /\ UNCHANGED <<op, args, sensors0, meta>>

\* lines 77-81: one pass of the while loop, get_data for the day included
Iter_get_range_data ==
    /\ pc = "loop"
    /\ LoopCond(now, to_dt)
    /\ \E out \in FetchOutcomes :
         LET now_str == strftime(now)
             call == [fn |-> "fetch_data", date |-> now_str,
                      down_sampling |-> args.down_sampling, ok |-> out.ok,
                      raw |-> out.raw,
                      sensors |-> IF out.ok THEN AppendTimestamp(sensors) ELSE sensors]
         IN /\ trace' = Append(trace, call)
            /\ IF out.ok
               THEN /\ sensors' = AppendTimestamp(sensors)
                    /\ range_data' = Append(range_data, EnergyData(now_str, FilterData(out.raw, sensors)))
                    /\ now' = now + 1
                    /\ UNCHANGED <<pc, result, to_dt>>
               ELSE /\ pc' = "raised"
                    /\ result' = Raise("StoreUnavailableError")
                    /\ range_data' = <<>>
                    /\ now' = 0
                    /\ to_dt' = 0
                    /\ UNCHANGED sensors
    /\ UNCHANGED <<op, args, sensors0, meta>>

\* line 83
Return_get_range_data ==
    /\ pc = "loop"
    /\ ~LoopCond(now, to_dt)
    /\ pc' = "returned"
    /\ result' = [t |-> "range", from_date |-> args.from_date, to_date |-> args.to_date,
                  range_data |-> range_data]
    /\ range_data' = <<>>
    /\ now' = 0
    /\ to_dt' = 0
    /\ UNCHANGED <<op, args, sensors0, sensors, trace, meta>>

(* ------------------------------ get_data ------------------------------- *)
\* get_data called on its own, sharing the caller's list
Call_get_data(date, keep_last_only, down_sampling) ==
    /\ pc = "idle"
    /\ op' = "get_data"
    /\ args' = [date |-> date, keep_last_only |-> keep_last_only, down_sampling |-> down_sampling]
    /\ \E out \in FetchOutcomes :
         LET call == [fn |-> IF keep_last_only THEN "get_last_value" ELSE "fetch_data",
                      date |-> date, down_sampling |-> down_sampling, ok |-> out.ok,
                      raw |-> out.raw,
                      sensors |-> IF out.ok /\ ~keep_last_only
                                  THEN AppendTimestamp(sensors) ELSE sensors]
         IN /\ trace' = <<call>>
            /\ IF ~out.ok
               THEN /\ result' = Raise("StoreUnavailableError")
                    /\ UNCHANGED sensors
               ELSE IF keep_last_only
               THEN /\ result' = get_last_value(out.raw)
                    /\ UNCHANGED sensors
               ELSE /\ result' = EnergyData(date, FilterData(out.raw, sensors))
                    /\ sensors' = AppendTimestamp(sensors)
    /\ pc' = Done(result')
    /\ UNCHANGED <<sensors0, now, to_dt, range_data, meta>>

(* --------------------- consumption and metadata ------------------------ *)
Call_get_date_consumption(rs, simplify) ==
    /\ pc = "idle"
    /\ op' = "get_date_consumption"
    /\ args' = [readings |-> rs, simplify |-> simplify]
    /\ result' = get_date_consumption(rs, simplify)
    /\ pc' = Done(result')
    /\ trace' = <<>>
    /\ UNCHANGED <<sensors0, sensors, now, to_dt, range_data, meta>>

Call_get_mean_consumption(rs) ==
    /\ pc = "idle"
    /\ op' = "get_mean_consumption"
    /\ args' = [readings |-> rs]
    /\ result' = get_mean_consumption(rs, meta)
    /\ pc' = Done(result')
    /\ trace' = <<>>
    /\ UNCHANGED <<sensors0, sensors, now, to_dt, range_data, meta>>

Call_get_meta(field) ==
    /\ pc = "idle"
    /\ op' = "get_meta"
    /\ args' = [field |-> field]
    /\ result' = get_meta(field, meta)
    /\ pc' = "returned"
    /\ trace' = <<>>
    /\ UNCHANGED <<sensors0, sensors, now, to_dt, range_data, meta>>

Call_has_meta(field) ==
    /\ pc = "idle"
    /\ op' = "has_meta"
    /\ args' = [field |-> field]
    /\ result' = PyBool(has_meta(field, meta))
    /\ pc' = "returned"
    /\ trace' = <<>>
    /\ UNCHANGED <<sensors0, sensors, now, to_dt, range_data, meta>>

\* send_meta(field, value, db): the Store's metadata document takes the value
send_meta(field, value, m) ==
    [f \in (DOMAIN m) \cup {field} |-> IF f = field THEN value ELSE m[f]]

Call_set_meta_field(field, value) ==
    /\ pc = "idle"
    /\ op' = "set_meta_field"
    /\ args' = [field |-> field, value |-> value]
    /\ meta' = send_meta(field, value, meta)
    /\ result' = None
    /\ pc' = "returned"
    /\ trace' = <<>>
    /\ UNCHANGED <<sensors0, sensors, now, to_dt, range_data>>

(* ------------------------------ the server ---------------------------- *)
\* the request is answered and the next one may be served; the caller's
\* list and the Store's metadata outlive it
Respond ==
    /\ pc \in {"returned", "raised"}
    /\ pc' = "idle"
    /\ op' = "none"
    /\ args' = [none |-> TRUE]
    /\ result' = NoResult
    /\ trace' = <<>>
    /\ UNCHANGED <<sensors0, sensors, now, to_dt, range_data, meta>>

(* --------------------------- specifications ---------------------------- *)
\* the fetch, filter and range operations alone
NextData ==
    \/ Respond
    \/ \E f \in DateInputs, t \in DateInputs, ds \in BOOLEAN : Call_get_range_data(f, t, ds)
    \/ Iter_get_range_data
    \/ Return_get_range_data
    \/ \E d \in GetDataDates, k \in BOOLEAN, ds \in BOOLEAN : Call_get_data(d, k, ds)

\* the consumption and metadata operations alone
NextMeta ==
    \/ Respond
    \/ \E rs \in DayReadings, simplify \in BOOLEAN : Call_get_date_consumption(rs, simplify)
    \/ \E rs \in DayReadings : Call_get_mean_consumption(rs)
    \/ \E field \in Fields \cup {NoField} : Call_get_meta(field)
    \/ \E field \in Fields \cup {NoField} : Call_has_meta(field)
    \/ \E field \in Fields, value \in MetaValues : Call_set_meta_field(field, value)

Next ==
    \/ Respond
    \/ \E f \in DateInputs, t \in DateInputs, ds \in BOOLEAN : Call_get_range_data(f, t, ds)
    \/ Iter_get_range_data
    \/ Return_get_range_data
    \/ \E d \in GetDataDates, k \in BOOLEAN, ds \in BOOLEAN : Call_get_data(d, k, ds)
    \/ \E rs \in DayReadings, simplify \in BOOLEAN : Call_get_date_consumption(rs, simplify)
    \/ \E rs \in DayReadings : Call_get_mean_consumption(rs)
    \/ \E field \in Fields \cup {NoField} : Call_get_meta(field)
    \/ \E field \in Fields \cup {NoField} : Call_has_meta(field)
    \/ \E field \in Fields, value \in MetaValues : Call_set_meta_field(field, value)

Spec == Init /\ [][Next]_vars

SpecData == Init /\ [][NextData]_vars

\* one caller's list is enough where no operation reads it
InitMeta == Init /\ sensors0 = <<>>
SpecMeta == InitMeta /\ [][NextMeta]_vars

(* ------------------------- range assembly ------------------------------ *)
\* a well-formed date string as year, month and day
YMD(s) ==
    LET p == DateParts(s)
    IN [y |-> DigitsVal(p[1]), m |-> DigitsVal(p[2]), d |-> DigitsVal(p[3])]

\* the calendar day after c
NextDay(c) ==
    IF c.d < DaysInMonth(c.y, c.m) THEN [c EXCEPT !.d = c.d + 1]
    ELSE IF c.m < 12 THEN [y |-> c.y, m |-> c.m + 1, d |-> 1]
    ELSE [y |-> c.y + 1, m |-> 1, d |-> 1]

\* calendar day a is strictly before calendar day b
DayBefore(a, b) ==
    \/ a.y < b.y
    \/ a.y = b.y /\ a.m < b.m
    \/ a.y = b.y /\ a.m = b.m /\ a.d < b.d

Parses(s) == strptime(s).t # "raise"

RangeReturned == op = "get_range_data" /\ pc = "returned"

\* C1: a returned range with to_date >= from_date holds one EnergyDay per
\* calendar day of [from_date, to_date]: the first is dated from_date, the
\* last to_date, each next one the calendar day after its predecessor, a
\* single-day range has one entry, and fetch_data was called once per day in
\* that order; a pair of parseable dates is never rejected as a bad date.
C1_OneEntryPerDay ==
    /\ (RangeReturned /\ ~DayBefore(YMD(args.to_date), YMD(args.from_date))) =>
         LET rd == result.range_data
             n == Len(rd)
         IN /\ n >= 1
            /\ YMD(rd[1].date) = YMD(args.from_date)
            /\ YMD(rd[n].date) = YMD(args.to_date)
            /\ \A i \in 1..(n - 1) : YMD(rd[i + 1].date) = NextDay(YMD(rd[i].date))
            /\ \A i \in 1..n : Len(rd[i].date) = 10 /\ Parses(rd[i].date)
            /\ (YMD(args.from_date) = YMD(args.to_date) => n = 1)
            /\ Len(trace) = n
            /\ \A i \in 1..n : trace[i].fn = "fetch_data" /\ trace[i].date = rd[i].date
    /\ (op = "get_range_data" /\ pc = "raised"
          /\ Parses(args.from_date) /\ Parses(args.to_date)) =>
         result # Raise("ValueError")

\* C1 witness: four days across the end of a year
C1_Witness ==
    /\ RangeReturned
    /\ Len(result.range_data) = 4
    /\ YMD(args.from_date).y # YMD(args.to_date).y

\* C2: an inverted range (to_date before from_date) ends in InvalidRangeError
\* and never in a returned RangeResult.
C2_InvertedRangeRejected ==
    (/\ op = "get_range_data"
     /\ pc \in {"returned", "raised"}
     /\ Parses(args.from_date) /\ Parses(args.to_date)
     /\ DayBefore(YMD(args.to_date), YMD(args.from_date))) =>
        (pc = "raised" /\ result = Raise("InvalidRangeError"))

\* C8: when either date does not parse, get_range_data raises the parse
\* error and no Store call has been made.
C8_BadDateBeforeStore ==
    (op = "get_range_data" /\ (~Parses(args.from_date) \/ ~Parses(args.to_date))) =>
        (pc = "raised" /\ result = Raise("ValueError") /\ trace = <<>>)

\* C8 witness: from_date parses, to_date does not
C8_Witness ==
    /\ op = "get_range_data"
    /\ pc = "raised"
    /\ Parses(args.from_date)
    /\ ~Parses(args.to_date)

\* C9: once a day's fetch has failed, the range ends in the Store's error with
\* no RangeResult, the failed fetch is the last Store call, and a returned
\* RangeResult has an entry for every fetch and every day.
C9_FetchFailureFailsRange ==
    /\ (op = "get_range_data" /\ \E i \in 1..Len(trace) : ~trace[i].ok) =>
         /\ pc = "raised"
         /\ result = Raise("StoreUnavailableError")
         /\ \A i \in 1..(Len(trace) - 1) : trace[i].ok
    /\ RangeReturned =>
         /\ result.t = "range"
         /\ \A i \in 1..Len(trace) : trace[i].ok
         /\ Len(result.range_data) = Len(trace)
         /\ (~DayBefore(YMD(args.to_date), YMD(args.from_date)) =>
               Len(result.range_data) =
                 strptime(args.to_date).ord - strptime(args.from_date).ord + 1)

\* C9 witness: the third day's fetch fails after two days were fetched
C9_Witness ==
    /\ op = "get_range_data"
    /\ pc = "raised"
    /\ Len(trace) = 3
    /\ ~trace[3].ok

(* ------------------------------ filtering ------------------------------ *)
\* out is raw with each record cut down to the keys of K
CutTo(out, raw, K) ==
    /\ Len(out) = Len(raw)
    /\ \A i \in 1..Len(raw) :
         /\ DOMAIN out[i] = (DOMAIN raw[i]) \cap K
         /\ \A k \in DOMAIN out[i] : out[i][k] = raw[i][k]
         /\ "timestamp" \in DOMAIN out[i]

\* C7: with a non-empty sensors list S, get_data's records are the fetched
\* records, one for one and in order, each cut down to its keys in
\* S \cup {"timestamp"} with the values unchanged, and each has "timestamp";
\* the same holds of every day of a range.
C7_FilterKeepsRows ==
    LET K == Range(sensors0) \cup {"timestamp"}
    IN /\ (op = "get_data" /\ pc = "returned" /\ ~args.keep_last_only /\ sensors0 # <<>>) =>
            CutTo(result.energy_data, trace[1].raw, K)
       /\ (op = "get_range_data" /\ pc = "loop" /\ sensors0 # <<>>) =>
            /\ Len(range_data) = Len(trace)
            /\ \A i \in 1..Len(range_data) : CutTo(range_data[i].energy_data, trace[i].raw, K)

\* C7 witness: three records of which only the timestamp survives
C7_Witness ==
    /\ op = "get_data"
    /\ pc = "returned"
    /\ ~args.keep_last_only
    /\ sensors0 = <<"humidity">>
    /\ Len(result.energy_data) = 3
    /\ \A i \in 1..3 : DOMAIN result.energy_data[i] = {"timestamp"}

\* C10: the caller's list is its original, or its original plus one
\* "timestamp" when it was non-empty and had none; every fetched day of one
\* operation is filtered with the same list; and a call with keep_last_only
\* leaves the list as it was, as every call does when the list is empty.
C10_ListInv ==
    /\ \/ sensors = sensors0
       \/ /\ sensors0 # <<>>
          /\ "timestamp" \notin Range(sensors0)
          /\ sensors = Append(sensors0, "timestamp")
    /\ Cardinality({i \in 1..Len(sensors) : sensors[i] = "timestamp"})
         <= Cardinality({i \in 1..Len(sensors0) : sensors0[i] = "timestamp"}) + 1
    /\ \A i, j \in 1..Len(trace) :
         (trace[i].ok /\ trace[j].ok /\ trace[i].fn = "fetch_data" /\ trace[j].fn = "fetch_data") =>
            trace[i].sensors = trace[j].sensors
    /\ \A i \in 1..Len(trace) :
         (trace[i].ok /\ trace[i].fn = "fetch_data" /\ sensors0 # <<>>) =>
            Range(trace[i].sensors) = Range(sensors0) \cup {"timestamp"}

C10_ListStep ==
    /\ (op' = "get_data" /\ pc # pc' /\ pc = "idle" /\ args'.keep_last_only) => sensors' = sensors
    /\ sensors = <<>> => sensors' = <<>>

C10_TimestampAppendedOnce == [](C10_ListInv) /\ [][C10_ListStep]_vars

\* C10 witness: a three-day range over a list that gained its "timestamp"
C10_Witness ==
    /\ RangeReturned
    /\ Len(trace) >= 3
    /\ sensors # sensors0

(* ----------------------- consumption and metadata ---------------------- *)
\* the consumption part of what get_date_consumption returned
ConsumptionOf(r, simplify) == IF simplify THEN r ELSE r.consumption

MeanDone == op = "get_mean_consumption" /\ pc \in {"returned", "raised"}

\* "Household m2" is absent, "null", or a value that parses to zero
SizeUnknown ==
    \/ SizeField \notin DOMAIN meta
    \/ meta[SizeField] = NullStr
    \/ float(meta[SizeField]) = PyNum(0, 1)

\* C4: get_mean_consumption returns -1 when "Household m2" is absent, "null"
\* or zero, and consumption / size in every other case; it never raises.
C4_MinusOneOrQuotient ==
    MeanDone =>
        /\ pc = "returned"
        /\ IF SizeUnknown THEN result = MinusOne
           ELSE LET c == get_view_daily_consumption(args.readings)
                    size == float(meta[SizeField])
                IN /\ c.t = "num"
                   /\ size.t = "num"
                   /\ result.t = "num"
                   /\ result.q.n * size.q.n * c.q.d = c.q.n * size.q.d * result.q.d

\* C5: with the day's consumption unavailable, get_mean_consumption returns a
\* number (the sentinel) and does not raise, whether "Household m2" is absent,
\* "null", zero or a non-zero size.
C5_UnavailableNeverRaises ==
    (/\ MeanDone
     /\ get_view_daily_consumption(args.readings) = Unavailable
     /\ (SizeField \in DOMAIN meta => float(meta[SizeField]).t = "num" \/ meta[SizeField] = NullStr)) =>
        (pc = "returned" /\ result.t = "num")

\* C6: has_meta(X) is false exactly when X is missing from the metadata or
\* maps to the string "null"; it is true for 0 and for false.
C6_HasMetaIffSet ==
    (op = "has_meta" /\ pc = "returned") =>
        /\ result.t = "bool"
        /\ result.b = FALSE <=> (args.field \notin DOMAIN meta \/ meta[args.field] = NullStr)
        /\ (args.field \in DOMAIN meta /\ meta[args.field] \in {PyNum(0, 1), PyBool(FALSE)}) =>
              result.b = TRUE

\* C6 witness: has_meta is true of a field set to false
C6_Witness ==
    /\ op = "has_meta"
    /\ pc = "returned"
    /\ args.field \in DOMAIN meta
    /\ meta[args.field] = PyBool(FALSE)
    /\ result = PyBool(TRUE)

====
